---- MODULE Spec2Model ----
(***************************************************************************)
(* cleye: derive a click command line interface from a function signature. *)
(*                                                                         *)
(* The model follows src/cleye.py.  A call of autoclick is one behaviour:  *)
(* the initial state holds the arguments of the call, each action is one   *)
(* statement of autoclick's loop together with every function it calls,    *)
(* and the final state holds the returned object or the exception raised.  *)
(*                                                                         *)
(* Python strings that the code edits (parameter names, option flags,      *)
(* command names) are sequences of one-character strings.  Every record    *)
(* kind has one fixed shape; fields that do not apply hold a neutral       *)
(* value.                                                                  *)
(***************************************************************************)
EXTENDS Integers, Sequences, FiniteSets, TLC

(***************************************************************************)
(* Bounds of the model.                                                    *)
(***************************************************************************)
\* longest signature (or mapping) given to autoclick as its single item
MaxParams == 2
\* most items in one call of autoclick that builds a group
MaxItems == 2

(***************************************************************************)
(* Python values: declared types, defaults.                                *)
(***************************************************************************)
\* a number inside a tuple value: num is "int" or "float", val identifies it
Num(num, val) == [num |-> num, val |-> val]

\* An annotation.  form "class": the class called name; args is its
\* attribute __args__, << >> for a class that has none.  form "alias": a
\* typing._GenericAlias such as typing.List[int], with __args__ = args.
\* form "tuple": a tuple value such as (1, 10), with the elements items.
Class(name) == [form |-> "class", name |-> name, args |-> << >>, items |-> << >>]
Alias(name, args) == [form |-> "alias", name |-> name, args |-> args, items |-> << >>]
TupleValue(items) == [form |-> "tuple", name |-> "", args |-> << >>, items |-> items]

\* inspect._empty: the annotation of an unannotated parameter
T_empty == Class("_empty")
T_bool == Class("bool")
T_int == Class("int")
T_str == Class("str")
T_list == Class("list")
T_tuple == Class("tuple")
\* class Point(tuple): a user subclass of tuple
T_Point == Class("Point")
\* class Pair(tuple): __args__ = (int, str)
T_Pair == [form |-> "class", name |-> "Pair", args |-> <<T_int, T_str>>, items |-> << >>]
T_datetime == Class("datetime")
T_UUID == Class("UUID")
T_set == Class("set")
T_Path == Class("Path")
T_object == Class("object")
T_ListInt == Alias("List", <<T_int>>)
T_TupleIntStr == Alias("Tuple", <<T_int, T_str>>)
T_Range == TupleValue(<<Num("int", 1), Num("int", 10)>>)
T_FloatRange == TupleValue(<<Num("float", 0), Num("float", 1)>>)

\* the classes a class is a subclass of (issubclass), itself included
Bases(name) ==
    CASE name = "bool" -> {"bool", "int", "object"}
      [] name = "Point" -> {"Point", "tuple", "object"}
      [] name = "Pair" -> {"Pair", "tuple", "object"}
      [] OTHER -> {name, "object"}

\* A default value.  vt "_empty" is inspect._empty, the mark of no default.
Value(vt, iv, items) == [vt |-> vt, iv |-> iv, items |-> items]
NoDefault == Value("_empty", 0, << >>)
D_None == Value("None", 0, << >>)
D_False == Value("bool", 0, << >>)
D_Five == Value("int", 5, << >>)
D_Pair == Value("tuple", 0, <<Num("int", 1), Num("int", 10)>>)

(***************************************************************************)
(* stringcase.spinalcase, as called on parameter names.                    *)
(***************************************************************************)
UpperCase == {"A", "B", "X"}

lowercase(c) ==
    CASE c = "A" -> "a"
      [] c = "B" -> "b"
      [] c = "X" -> "x"
      [] OTHER -> c

\* re.sub(r"[\-\.\s]", "_", string)
RECURSIVE Underscored(_)
Underscored(s) ==
    IF s = << >> THEN << >>
    ELSE <<IF Head(s) \in {"-", ".", " "} THEN "_" ELSE Head(s)>>
             \o Underscored(Tail(s))

\* re.sub(r"[A-Z]", lambda m: "_" + lowercase(m.group(0)), string)
RECURSIVE SplitCapitals(_)
SplitCapitals(s) ==
    IF s = << >> THEN << >>
    ELSE (IF Head(s) \in UpperCase THEN <<"_", lowercase(Head(s))>> ELSE <<Head(s)>>)
             \o SplitCapitals(Tail(s))

snakecase(string) ==
    LET s == Underscored(string)
    IN  IF s = << >> THEN s
        ELSE <<lowercase(Head(s))>> \o SplitCapitals(Tail(s))

RECURSIVE Hyphenated(_)
Hyphenated(s) ==
    IF s = << >> THEN << >>
    ELSE <<IF Head(s) = "_" THEN "-" ELSE Head(s)>> \o Hyphenated(Tail(s))

spinalcase(string) == Hyphenated(snakecase(string))

(***************************************************************************)
(* click_type: python type -> click validator.                             *)
(***************************************************************************)
\* A validator.  tag "None": no validator.  tag "class": the class cls is
\* returned unchanged.  tag "raise": the call raised the exception cls.
Validator(tag, cls, members, lo, hi) ==
    [tag |-> tag, cls |-> cls, members |-> members, lo |-> lo, hi |-> hi]
V_None == Validator("None", "", << >>, 0, 0)
V_Class(name) == Validator("class", name, << >>, 0, 0)
V_Raise(exception) == Validator("raise", exception, << >>, 0, 0)

AllNum(items, num) == \A j \in 1..Len(items) : j <= 2 => items[j].num = num

\* isinstance(x, type) and issubclass(x, y)
IsSubclass(object, base) == object.form = "class" /\ base \in Bases(object.name)

\* The tuple values of the model have two elements, so that object[:2] is the
\* whole tuple and IntRange(*object) gets min and max.
RECURSIVE click_type(_, _)
click_type(object, default) ==
    IF object.form = "alias"
    THEN IF object.args = << >> THEN V_Raise("IndexError")
         ELSE click_type(object.args[1], default)
    ELSE IF object.form = "class"
    THEN IF IsSubclass(object, "datetime")
         THEN Validator("DateTime", "", << >>, 0, 0)
         \* click.Tuple(object.__args__): tuple and its subclasses have no
         \* attribute __args__ unless they define one
         ELSE IF IsSubclass(object, "tuple")
         THEN IF object.args = << >> THEN V_Raise("AttributeError")
              ELSE Validator("Tuple", "",
                             [j \in 1..Len(object.args) |-> object.args[j].name], 0, 0)
         \* click.UUID(default): the validator is called with the default
         ELSE IF IsSubclass(object, "UUID")
         THEN Validator("UUID", default.vt, << >>, 0, 0)
         ELSE IF object.name = "list" THEN V_None
         ELSE IF IsSubclass(object, "set")
         THEN Validator("Choice", object.name, << >>, 0, 0)
         ELSE IF IsSubclass(object, "Path")
         THEN Validator("Path", "", << >>, 0, 0)
         ELSE IF object.name \in {"object", "Any"} THEN V_None
         ELSE V_Class(object.name)
    ELSE IF Len(object.items) = 2 /\ AllNum(object.items, "int")
    THEN Validator("IntRange", "", << >>, object.items[1].val, object.items[2].val)
    ELSE IF Len(object.items) = 2 /\ AllNum(object.items, "float")
    THEN Validator("FloatRange", "", << >>, object.items[1].val, object.items[2].val)
    ELSE V_None

(***************************************************************************)
(* The click decorators and decorators_from_dicts.                         *)
(***************************************************************************)
\* One decorator as click.option, click.argument or click.pass_context
\* returns it.  decl is the flag or argument name; required is click's
\* Argument rule (an argument with nargs > 0 and no default is required).
Decorator(dec, decl, type, default, show_default, is_flag, nargs) ==
    [dec |-> dec, decl |-> decl, type |-> type, default |-> default,
     show_default |-> show_default, is_flag |-> is_flag, nargs |-> nargs,
     required |-> dec = "argument" /\ nargs > 0]

\* click.option without is_flag=v is bool
option_without_flag(decl, type, default, show_default, is_flag) ==
    Decorator("option", decl, type, default, show_default, FALSE, 1)

option(decl, type, default, show_default, is_flag) ==
    Decorator("option", decl, type, default, show_default, is_flag, 1)

argument(decl, type, nargs) ==
    Decorator("argument", decl, type, NoDefault, FALSE, FALSE, nargs)

pass_context == Decorator("pass_context", << >>, V_None, NoDefault, FALSE, FALSE, 0)

\* a dict as the sequence of its items, in insertion order
Entry(k, v) == [k |-> k, v |-> v]
Keys(dict) == {dict[j].k : j \in 1..Len(dict)}
\* defaults.get(k), for a key of the dict
Get(dict, k) == dict[CHOOSE j \in 1..Len(dict) : dict[j].k = k].v

\* what a function that may raise gives: raised is "" or the exception
Outcome(raised, decorators) == [raised |-> raised, decorators |-> decorators]

istype(x, y) == IsSubclass(x, y)

\* getattr(v, "__args__", (str,))[-1]: the last type argument
LastArg(v) == IF v.args # << >> THEN v.args[Len(v.args)] ELSE T_str

\* getattr(v, "__args__", (str,))[0]
FirstArg(v) == IF v.args # << >> THEN v.args[1] ELSE T_str

\* the flag of an option: one hyphen for a one-character name, else two
Flag(k) == (IF Len(k) = 1 THEN <<"-">> ELSE <<"-", "-">>) \o spinalcase(k)

\* the decorator of one item (k, v) of annotations, or the raise of click_type
decorator_for(k, v, defaults) ==
    IF k \in Keys(defaults)
    THEN LET d == Get(defaults, k)
             t == click_type(v, d)
         IN  IF t.tag = "raise" THEN Outcome(t.cls, << >>)
             ELSE Outcome("", <<option(Flag(k), t, d, TRUE, v = T_bool)>>)
    ELSE IF v.form = "alias" \/ istype(v, "list")
    THEN LET t == click_type(FirstArg(v), D_None)
         IN  IF t.tag = "raise" THEN Outcome(t.cls, << >>)
             ELSE Outcome("", <<argument(spinalcase(k), t, -1)>>)
    ELSE LET t == click_type(v, D_None)
         IN  IF t.tag = "raise" THEN Outcome(t.cls, << >>)
             ELSE Outcome("", <<argument(spinalcase(k), t, 1)>>)

RECURSIVE decorators_from_dicts(_, _, _)
decorators_from_dicts(annotations, defaults, decorators) ==
    IF annotations = << >> THEN Outcome("", decorators)
    ELSE LET one == decorator_for(Head(annotations).k, Head(annotations).v, defaults)
         IN  IF one.raised # "" THEN one
             ELSE decorators_from_dicts(Tail(annotations), defaults,
                                        decorators \o one.decorators)

(***************************************************************************)
(* Functions, mappings, commands and groups.                               *)
(***************************************************************************)
\* one parameter of a signature (inspect.Parameter); kind is
\* "VAR_POSITIONAL" for *args and "OTHER" for every other kind
Parameter(name, annotation, default, kind) ==
    [name |-> name, annotation |-> annotation, default |-> default, kind |-> kind]

ctx == <<"c", "t", "x">>

\* what a command calls: a function (pass_context tells whether
\* click.pass_context wraps it), a decorator taken for a function, or
\* nothing the model looks into (a command built elsewhere)
Callback(kind, name, wrapped, decorator) ==
    [kind |-> kind, name |-> name, wrapped |-> wrapped, decorator |-> decorator]
NoDecorator == Decorator("none", << >>, V_None, NoDefault, FALSE, FALSE, 0)
NoCallback == Callback("none", << >>, FALSE, NoDecorator)

\* An item given to autoclick, or the object the loop variable command is
\* bound to.  kind "function": name, signature and doc count.  kind "dict":
\* signature holds one Parameter per annotated name, default NoDefault for
\* a name that is no key of the mapping.  kind "command" (click.Command):
\* name, params, callback, no_args_is_help and help count.
Object(kind, name, signature, doc, params, callback, no_args_is_help, help) ==
    [kind |-> kind, name |-> name, signature |-> signature, doc |-> doc,
     params |-> params, callback |-> callback,
     no_args_is_help |-> no_args_is_help, help |-> help]
Function(name, signature, doc) ==
    Object("function", name, signature, doc, << >>, NoCallback, FALSE, "")
Mapping(entries) ==
    Object("dict", << >>, entries, "", << >>, NoCallback, FALSE, "")
Command(name, params, callback, no_args_is_help, help) ==
    Object("command", name, << >>, "", params, callback, no_args_is_help, help)
Unbound == Object("unbound", << >>, << >>, "", << >>, NoCallback, FALSE, "")

\* a click.Group: commands is the set of its commands, one per name
Group(id, commands) == [id |-> id, commands |-> commands]

\* a group that keeps only the command added last
add_command_alone(app, cmd) == Group(app.id, {cmd})

\* Group.add_command(cmd): commands[cmd.name] = cmd
add_command(app, cmd) ==
    Group(app.id, {c \in app.commands : c.name # cmd.name} \cup {cmd})

(***************************************************************************)
(* signature_to_decorators and command_from_decorators.                    *)
(***************************************************************************)
RECURSIVE Annotations(_)
Annotations(signature) ==
    IF signature = << >> THEN << >>
    ELSE LET v == Head(signature)
         IN  (IF v.name # ctx
              THEN <<Entry(v.name, IF v.kind = "VAR_POSITIONAL"
                                   THEN Alias("List", <<v.annotation>>)
                                   ELSE v.annotation)>>
              ELSE << >>) \o Annotations(Tail(signature))

\* the defaults taken with "if v.default", which drops None and False
RECURSIVE TruthyDefaults(_)
TruthyDefaults(signature) ==
    IF signature = << >> THEN << >>
    ELSE LET v == Head(signature)
         IN  (IF v.default \notin {NoDefault, D_None, D_False}
              THEN <<Entry(v.name, v.default)>> ELSE << >>)
                 \o TruthyDefaults(Tail(signature))

RECURSIVE Defaults(_)
Defaults(signature) ==
    IF signature = << >> THEN << >>
    ELSE LET v == Head(signature)
         IN  (IF v.default # NoDefault THEN <<Entry(v.name, v.default)>> ELSE << >>)
                 \o Defaults(Tail(signature))

\* the loop over the parameters that breaks after the first one
ContextMarker(signature) ==
    IF signature # << >> /\ Head(signature).name = ctx THEN <<pass_context>> ELSE << >>

signature_to_decorators(object, decorators) ==
    LET made == decorators_from_dicts(Annotations(object.signature),
                                      Defaults(object.signature), << >>)
    IN  IF made.raised # "" THEN made
        ELSE Outcome("", decorators \o made.decorators
                                    \o ContextMarker(object.signature))

\* the mapping's "__annotations__", in insertion order
DictAnnotations(object) ==
    [j \in 1..Len(object.signature) |->
        Entry(object.signature[j].name, object.signature[j].annotation)]

\* decorators_from_dict(object): the defaults are the mapping itself, which
\* has the names given a value and "__annotations__" as keys
decorators_from_dict(object) ==
    decorators_from_dicts(DictAnnotations(object),
                          Defaults(object.signature)
                              \o <<Entry(<<"__annotations__">>, Value("dict", 0, << >>))>>,
                          << >>)

Settings(name, help) == [name |-> name, help |-> help]

\* f.__name__.lower().replace("_", "-"), the name click.command gives
RECURSIVE CommandName(_)
CommandName(name) ==
    IF name = << >> THEN << >>
    ELSE <<IF Head(name) = "_" THEN "-" ELSE lowercase(Head(name))>>
             \o CommandName(Tail(name))

\* __name__ of the function click.option and click.argument return
DecoratorName == <<"d", "e", "c", "o", "r", "a", "t", "o", "r">>

NoneObject == Object("None", << >>, << >>, "", << >>, NoCallback, FALSE, "")

Reverse(seq) == [j \in 1..Len(seq) |-> seq[Len(seq) + 1 - j]]

\* the loop without reversed(): the decorators applied first to last
RECURSIVE DecorateForward(_, _, _)
DecorateForward(callable, click_params, decorators) ==
    IF decorators = << >> THEN [callable |-> callable, click_params |-> click_params]
    ELSE IF Head(decorators).dec = "pass_context"
    THEN DecorateForward([callable EXCEPT !.wrapped = TRUE], click_params,
                         Tail(decorators))
    ELSE DecorateForward(callable, click_params \o <<Head(decorators)>>,
                         Tail(decorators))

\* for decorator in reversed(decorators): command = decorator(command).
\* click.option and click.argument append their parameter to
\* command.__click_params__; click.pass_context wraps command.  Gives the
\* callable and its __click_params__.
RECURSIVE Decorate(_, _, _)
Decorate(callable, click_params, decorators) ==
    IF decorators = << >> THEN [callable |-> callable, click_params |-> click_params]
    ELSE LET decorator == decorators[Len(decorators)]
             rest == SubSeq(decorators, 1, Len(decorators) - 1)
         IN  IF decorator.dec = "pass_context"
             THEN Decorate([callable EXCEPT !.wrapped = TRUE], click_params, rest)
             ELSE Decorate(callable, click_params \o <<decorator>>, rest)

Built(raised, command) == [raised |-> raised, command |-> command]

\* no_args_is_help set by the options and arguments alone
NoArgsIsHelpBindings(decorators) ==
    \E j \in 1..Len(decorators) : decorators[j].dec # "pass_context"

\* no_args_is_help=bool(decorators)
NoArgsIsHelp(decorators) == decorators # << >>

\* click.command(no_args_is_help=bool(decorators), **settings)(command):
\* the parameters are __click_params__ reversed
command_from_decorators(command, decorators, settings) ==
    IF command.kind = "None" /\ decorators = << >>
    THEN Built("ValueError", Unbound)
    ELSE LET taken == command.kind = "None"
             callable == IF taken
                         THEN Callback("decorator", DecoratorName, FALSE,
                                       decorators[Len(decorators)])
                         ELSE Callback("function", command.name, FALSE, NoDecorator)
             applied == IF taken THEN SubSeq(decorators, 1, Len(decorators) - 1)
                        ELSE decorators
             done == Decorate(callable, << >>, applied)
         IN  Built("", Command(IF settings.name # << >> THEN settings.name
                               ELSE CommandName(done.callable.name),
                               Reverse(done.click_params), done.callable,
                               NoArgsIsHelp(applied), settings.help))

(***************************************************************************)
(* The calls of autoclick the model makes.                                 *)
(***************************************************************************)
Names == {<<"n">>, ctx, <<"m", "y", "_", "x">>}

Declared(annotation, default, kind) ==
    [annotation |-> annotation, default |-> default, kind |-> kind]

\* annotation, default and kind of the parameters of the functions
Declarations ==
    {Declared(T_empty, NoDefault, "OTHER"), Declared(T_empty, D_None, "OTHER"),
     Declared(T_bool, NoDefault, "OTHER"), Declared(T_bool, D_False, "OTHER"),
     Declared(T_int, NoDefault, "OTHER"), Declared(T_int, D_Five, "OTHER"),
     Declared(T_str, D_None, "OTHER"),
     Declared(T_list, NoDefault, "OTHER"),
     Declared(T_tuple, NoDefault, "OTHER"), Declared(T_tuple, D_Pair, "OTHER"),
     Declared(T_Point, NoDefault, "OTHER"), Declared(T_Pair, D_Pair, "OTHER"),
     Declared(T_ListInt, NoDefault, "OTHER"), Declared(T_ListInt, D_None, "OTHER"),
     Declared(T_TupleIntStr, NoDefault, "OTHER"),
     Declared(T_TupleIntStr, D_Pair, "OTHER"),
     Declared(T_datetime, NoDefault, "OTHER"),
     Declared(T_UUID, D_None, "OTHER"),
     Declared(T_set, NoDefault, "OTHER"),
     Declared(T_Path, NoDefault, "OTHER"),
     Declared(T_object, NoDefault, "OTHER"),
     Declared(T_Range, D_Five, "OTHER"),
     Declared(T_FloatRange, NoDefault, "OTHER"),
     Declared(T_int, NoDefault, "VAR_POSITIONAL"),
     Declared(T_empty, NoDefault, "VAR_POSITIONAL")}

\* the entries of the mappings
DictDeclarations ==
    {Declared(T_int, NoDefault, "OTHER"), Declared(T_int, D_Five, "OTHER"),
     Declared(T_bool, D_False, "OTHER"), Declared(T_ListInt, NoDefault, "OTHER"),
     Declared(T_tuple, D_Pair, "OTHER")}

ParametersOf(declarations) ==
    {Parameter(name, d.annotation, d.default, d.kind) :
        name \in Names, d \in declarations}

\* the signatures python accepts: distinct names, at most one *args
SignaturesOf(declarations, longest) ==
    {s \in UNION {[1..m -> ParametersOf(declarations)] : m \in 0..longest} :
        /\ \A j, k \in 1..Len(s) : j # k => s[j].name # s[k].name
        /\ Cardinality({j \in 1..Len(s) : s[j].kind = "VAR_POSITIONAL"}) <= 1}

Prebuilt(name) == Command(name, << >>, Callback("prebuilt", name, FALSE, NoDecorator), FALSE, "")

\* the items of the calls with one item
Items ==
    {Function(<<"f">>, s, "doc") : s \in SignaturesOf(Declarations, MaxParams)}
    \cup {Mapping(s) : s \in SignaturesOf(DictDeclarations, MaxParams)}
    \cup {Prebuilt(<<"a">>)}

\* the items of the calls with any number of items
GroupItems ==
    {Prebuilt(<<"a">>), Prebuilt(<<"f">>),
     Function(<<"f">>, << >>, "doc"),
     Function(<<"g", "_", "X">>, <<Parameter(ctx, T_empty, NoDefault, "OTHER"),
                                   Parameter(<<"n">>, T_int, D_Five, "OTHER")>>, ""),
     Function(<<"h">>, <<Parameter(<<"n">>, T_tuple, D_Pair, "OTHER")>>, ""),
     Mapping(<<Parameter(<<"n">>, T_int, NoDefault, "OTHER")>>)}

NoGroup == Group("None", {})
NewGroup == Group("new", {})
SuppliedGroup == Group("supplied", {Prebuilt(<<"o", "l", "d">>)})

(***************************************************************************)
(* autoclick.                                                              *)
(***************************************************************************)
VARIABLES
    object,       \* the items autoclick was called with
    group,        \* the group argument, NoGroup for None
    settings,     \* the keyword settings: name, << >> when not given
    app,          \* the group the loop fills
    index,        \* the position of the loop in object
    command,      \* the loop variable
    decorators,   \* the local of the same name
    pc,           \* "for", "L28", "L34", "done" or "raised"
    exception,    \* the exception autoclick raised, "" for none
    result        \* what autoclick returned

vars == <<object, group, settings, app, index, command, decorators, pc,
          exception, result>>

Result(kind, value, grp) == [kind |-> kind, command |-> value, group |-> grp]
NoResult == Result("none", Unbound, NoGroup)

\* sequences of at most n elements of S
SeqUpTo(S, n) == UNION {[1..m -> S] : m \in 0..n}

\* app = group or click.Group()
Init ==
    /\ \/ /\ object \in {<<item>> : item \in Items}
          /\ group = NoGroup
          /\ settings = << >>
       \/ /\ object \in SeqUpTo(GroupItems, MaxItems)
          /\ group \in {NoGroup, SuppliedGroup}
          /\ settings \in {<< >>, <<"c", "l", "i">>}
    /\ app = IF group = NoGroup THEN NewGroup ELSE group
    /\ index = 1
    /\ command = Unbound
    /\ decorators = << >>
    /\ pc = "for"
    /\ exception = ""
    /\ result = NoResult

Raise(name) ==
    /\ pc' = "raised"
    /\ exception' = name

\* lines 24-25: a command is added to the group as it is
AddCommand ==
    /\ pc = "for"
    /\ index <= Len(object)
    /\ object[index].kind = "command"
    /\ command' = object[index]
    /\ app' = add_command(app, object[index])
    /\ index' = index + 1
    /\ UNCHANGED <<object, group, settings, decorators, pc, exception, result>>

\* lines 26-27: decorators = signature_to_decorators(command)
SignatureToDecorators ==
    /\ pc = "for"
    /\ index <= Len(object)
    /\ object[index].kind = "function"
    /\ command' = object[index]
    /\ LET made == signature_to_decorators(object[index], << >>)
       IN  IF made.raised # ""
           THEN Raise(made.raised) /\ UNCHANGED decorators
           ELSE /\ decorators' = made.decorators
                /\ pc' = "L28"
                /\ UNCHANGED exception
    /\ UNCHANGED <<object, group, settings, app, index, result>>

\* lines 28-31: the command of the function is built and added
CommandFromFunction ==
    /\ pc = "L28"
    /\ LET built == command_from_decorators(command, decorators,
                                            Settings(settings, command.doc))
       IN  /\ command' = built.command
           /\ app' = add_command(app, built.command)
    /\ index' = index + 1
    /\ pc' = "for"
    /\ UNCHANGED <<object, group, settings, decorators, exception, result>>

\* lines 32-33: decorators = decorators_from_dict(command)
DecoratorsFromDict ==
    /\ pc = "for"
    /\ index <= Len(object)
    /\ object[index].kind = "dict"
    /\ command' = object[index]
    /\ LET made == decorators_from_dict(object[index])
       IN  IF made.raised # ""
           THEN Raise(made.raised) /\ UNCHANGED decorators
           ELSE /\ decorators' = made.decorators
                /\ pc' = "L34"
                /\ UNCHANGED exception
    /\ UNCHANGED <<object, group, settings, app, index, result>>

\* line 34: command = command_from_decorators(None, *decorators, **settings)
CommandFromDict ==
    /\ pc = "L34"
    /\ LET built == command_from_decorators(NoneObject, decorators,
                                            Settings(settings, ""))
       IN  IF built.raised # ""
           THEN Raise(built.raised) /\ UNCHANGED <<command, index>>
           ELSE /\ command' = built.command
                /\ index' = index + 1
                /\ pc' = "for"
                /\ UNCHANGED exception
    /\ UNCHANGED <<object, group, settings, app, decorators, result>>

\* line 35: return command if len(object) == 1 else app
Return ==
    /\ pc = "for"
    /\ index > Len(object)
    /\ result' = IF Len(object) = 1 THEN Result("command", command, NoGroup)
                 ELSE Result("group", Unbound, app)
    /\ pc' = "done"
    /\ UNCHANGED <<object, group, settings, app, index, command, decorators,
                   exception>>

Next ==
    \/ AddCommand
    \/ SignatureToDecorators
    \/ CommandFromFunction
    \/ DecoratorsFromDict
    \/ CommandFromDict
    \/ Return

Spec == Init /\ [][Next]_vars

(***************************************************************************)
(* What the claims speak of.                                               *)
(***************************************************************************)
\* the parameters that are not named ctx, in declaration order
Visible(signature) == SelectSeq(signature, LAMBDA v : v.name # ctx)

\* the CLI bindings among decorators: all but the context-passing marker
Bindings(decs) == SelectSeq(decs, LAMBDA d : d.dec # "pass_context")

\* signature_to_decorators has just returned decorators for the function command
Returned == pc = "L28"

\* decorators_from_dicts has just returned decorators, for the annotations
\* and defaults of Passed and PassedDefaults
FromDicts == pc \in {"L28", "L34"}
Passed == IF pc = "L28" THEN Annotations(command.signature) ELSE DictAnnotations(command)
PassedDefaults == Keys(Defaults(command.signature))

\* the item whose command the loop has just built
Built_item == object[index - 1]
BuiltFrom(kind) ==
    /\ pc = "for"
    /\ index > 1
    /\ object[index - 1].kind = kind

\* C1: when signature_to_decorators returns, every parameter other than ctx
\* that has a default (None included) got a named option, not an argument:
\* its default is the parameter's default, show_default is set, and its name
\* is the hyphenated parameter name after one hyphen for a one-character
\* name and after two hyphens otherwise.
C1_DefaultGivesOption ==
    Returned =>
        LET visible == Visible(command.signature)
            bindings == Bindings(decorators)
        IN  /\ Len(bindings) = Len(visible)
            /\ \A j \in 1..Len(visible) :
                  visible[j].default # NoDefault =>
                    /\ bindings[j].dec = "option"
                    /\ bindings[j].nargs = 1
                    /\ bindings[j].default = visible[j].default
                    /\ bindings[j].show_default
                    /\ bindings[j].decl =
                          (IF Len(visible[j].name) = 1 THEN <<"-">> ELSE <<"-", "-">>)
                              \o spinalcase(visible[j].name)

C1_Witness ==
    /\ Returned
    /\ Len(command.signature) = 2
    /\ command.signature[1].name = ctx
    /\ command.signature[2] = Parameter(<<"m", "y", "_", "x">>, T_empty, D_None, "OTHER")
    /\ Bindings(decorators) =
          <<option(<<"-", "-", "m", "y", "-", "x">>, V_Class("_empty"), D_None, TRUE, FALSE)>>

\* C2 as claimed: every parameter whose declared type is exactly bool, with
\* or without a default, gets an option that is a flag, and no other
\* parameter gets a flag.
C2_BoolAlwaysFlag ==
    FromDicts =>
        \A j \in 1..Len(Passed) :
            /\ Passed[j].v = T_bool =>
                  decorators[j].dec = "option" /\ decorators[j].is_flag
            /\ Passed[j].v # T_bool => ~decorators[j].is_flag

\* C2 as amended: a bool parameter with a default gets an option with
\* is_flag set; a bool parameter without a default gets a required
\* positional argument validated by bool, no flag; no binding of a
\* parameter whose type is not exactly bool has is_flag set.
C2_BoolWithDefaultIsFlag ==
    FromDicts =>
        \A j \in 1..Len(Passed) :
            /\ (Passed[j].v = T_bool /\ Passed[j].k \in PassedDefaults) =>
                  decorators[j].dec = "option" /\ decorators[j].is_flag
            /\ (Passed[j].v = T_bool /\ Passed[j].k \notin PassedDefaults) =>
                  /\ decorators[j].dec = "argument"
                  /\ decorators[j].required
                  /\ decorators[j].nargs = 1
                  /\ decorators[j].type = V_Class("bool")
                  /\ ~decorators[j].is_flag
            /\ Passed[j].v # T_bool => ~decorators[j].is_flag

C2_Witness ==
    /\ FromDicts
    /\ Len(Passed) = 2
    /\ Passed[1].v = T_bool /\ Passed[1].k \notin PassedDefaults
    /\ decorators[1].dec = "argument"
    /\ Passed[2].v = T_bool /\ Passed[2].k \in PassedDefaults
    /\ decorators[2].is_flag

\* C3: when decorators_from_dicts returns, every parameter without a default
\* whose type is a parameterized generic or a list type (*args included) got
\* a variadic argument (nargs = -1) validated by click_type of the first
\* type argument, by str when the type has no argument; every other
\* parameter without a default got one required argument validated by
\* click_type of its type.
C3_NoDefaultGivesArgument ==
    FromDicts =>
        \A j \in 1..Len(Passed) :
            Passed[j].k \notin PassedDefaults =>
                LET v == Passed[j].v
                    d == decorators[j]
                IN  /\ d.dec = "argument"
                    /\ d.decl = spinalcase(Passed[j].k)
                    /\ IF v.form = "alias" \/ (v.form = "class" /\ "list" \in Bases(v.name))
                       THEN /\ d.nargs = -1 /\ ~d.required
                            /\ d.type = IF v.args # << >>
                                        THEN click_type(v.args[1], D_None)
                                        ELSE V_Class("str")
                       ELSE /\ d.nargs = 1 /\ d.required
                            /\ d.type = click_type(v, D_None)

C3_Witness ==
    /\ Returned
    /\ Len(command.signature) = 2
    /\ command.signature[1].annotation = T_TupleIntStr
    /\ command.signature[1].default = NoDefault
    /\ command.signature[2].kind = "VAR_POSITIONAL"
    /\ command.signature[2].annotation = T_int
    /\ decorators[1] = argument(<<"n">>, V_Class("int"), -1)
    /\ decorators[2] = argument(<<"m", "y", "-", "x">>, V_Class("int"), -1)

\* the name a binding of the parameter v carries
DeclOf(v) ==
    IF v.default = NoDefault THEN spinalcase(v.name)
    ELSE (IF Len(v.name) = 1 THEN <<"-">> ELSE <<"-", "-">>) \o spinalcase(v.name)

\* C4: the bindings signature_to_decorators returns are one per parameter
\* not named ctx, in declaration order, none for ctx; and the parameters of
\* the command built from them are in declaration order again.
C4_OrderKept ==
    /\ Returned =>
          LET visible == Visible(command.signature)
              bindings == Bindings(decorators)
          IN  /\ Len(bindings) = Len(visible)
              /\ \A j \in 1..Len(visible) : bindings[j].decl = DeclOf(visible[j])
    /\ BuiltFrom("function") =>
          LET visible == Visible(Built_item.signature)
          IN  /\ Len(command.params) = Len(visible)
              /\ \A j \in 1..Len(visible) : command.params[j].decl = DeclOf(visible[j])

C4_Witness ==
    /\ BuiltFrom("function")
    /\ Len(Built_item.signature) = 2
    /\ Built_item.signature[1].name = <<"m", "y", "_", "x">>
    /\ Built_item.signature[1].default = NoDefault
    /\ Built_item.signature[2].name = <<"n">>
    /\ Built_item.signature[2].default = D_Five
    /\ Len(command.params) = 2
    /\ command.params[1].decl = <<"m", "y", "-", "x">>
    /\ command.params[2].decl = <<"-", "n">>

\* C5 as claimed: a function with a parameter named ctx, at any position,
\* gets exactly one context-passing marker, which is the last decorator and
\* so the first applied; a function without ctx gets none.
C5_MarkerForAnyCtx ==
    Returned =>
        LET markers == {j \in 1..Len(decorators) : decorators[j].dec = "pass_context"}
            named == \E j \in 1..Len(command.signature) : command.signature[j].name = ctx
        IN  /\ named => markers = {Len(decorators)}
            /\ ~named => markers = {}

\* C6 as claimed: the command built from a function has no_args_is_help
\* exactly when a CLI binding was produced for it.
C6_HelpIffBinding ==
    BuiltFrom("function") =>
        (command.no_args_is_help <=> Visible(Built_item.signature) # << >>)

\* C6 as amended: the command built from a function has no_args_is_help
\* exactly when a decorator was produced for it, the context-passing marker
\* counted: that is when it has a parameter not named ctx or its first
\* parameter is ctx.
C6_HelpIffDecorator ==
    BuiltFrom("function") =>
        (command.no_args_is_help <=>
            \/ Visible(Built_item.signature) # << >>
            \/ /\ Built_item.signature # << >>
               /\ Built_item.signature[1].name = ctx)

C6_Witness ==
    /\ BuiltFrom("function")
    /\ Len(Built_item.signature) = 1
    /\ Built_item.signature[1].name = ctx
    /\ command.params = << >>
    /\ command.callback.wrapped
    /\ command.no_args_is_help

\* the name of the command of an item that is a command or a function
NameOf(item) ==
    IF item.kind = "command" THEN item.name
    ELSE IF settings # << >> THEN settings
    ELSE CommandName(item.name)

Registered == {j \in 1..Len(object) : object[j].kind \in {"command", "function"}}

\* C7: autoclick called with one item returns the command of that item, not
\* the group; called with no item or with several it returns the group, the
\* supplied one when one was given and a new one otherwise, and when the
\* names of the commands are distinct every command and every function
\* among the items is in that group under its command name.
C7_CommandOrGroup ==
    pc = "done" =>
        IF Len(object) = 1
        THEN /\ result.kind = "command"
             /\ result.command.kind = "command"
             /\ object[1].kind = "command" => result.command = object[1]
             /\ object[1].kind = "function" =>
                   /\ result.command.name = NameOf(object[1])
                   /\ result.command.callback.kind = "function"
                   /\ result.command.callback.name = object[1].name
                   /\ result.command.help = object[1].doc
        ELSE /\ result.kind = "group"
             /\ result.group.id = (IF group = NoGroup THEN "new" ELSE "supplied")
             /\ group.commands \subseteq result.group.commands
             /\ (\A j, k \in Registered : j # k => NameOf(object[j]) # NameOf(object[k])) =>
                   \A j \in Registered :
                     \E c \in result.group.commands :
                       /\ c.name = NameOf(object[j])
                       /\ object[j].kind = "command" => c = object[j]
                       /\ object[j].kind = "function" =>
                             /\ c.callback.kind = "function"
                             /\ c.callback.name = object[j].name

C7_Witness ==
    /\ pc = "done"
    /\ object = <<Prebuilt(<<"a">>),
                  Function(<<"g", "_", "X">>,
                           <<Parameter(ctx, T_empty, NoDefault, "OTHER"),
                             Parameter(<<"n">>, T_int, D_Five, "OTHER")>>, "")>>
    /\ group = SuppliedGroup
    /\ settings = << >>
    /\ result.kind = "group"
    /\ result.group.id = "supplied"
    /\ {c.name : c \in result.group.commands} = {<<"a">>, <<"g", "-", "x">>, <<"o", "l", "d">>}

\* the function of the example: def range_check(n: tuple = (1, 10))
RangeCheck == <<Parameter(<<"n">>, T_tuple, D_Pair, "OTHER")>>

\* C8 as claimed: for n: tuple = (1, 10) the binding is built without a
\* raise and is the option -n, validated by the integer range 1..10, with
\* the tuple as its default.
C8_TupleDefaultGivesRange ==
    (command.kind = "function" /\ command.signature = RangeCheck) =>
        /\ pc # "raised"
        /\ decorators = <<option(<<"-", "n">>, Validator("IntRange", "", << >>, 1, 10),
                                 D_Pair, TRUE, FALSE)>>

\* the tuple-shaped types and their member types
TupleShaped == {T_tuple, T_Point, T_Pair, T_TupleIntStr}

\* C9 as claimed: click_type maps a tuple-shaped type (typing.Tuple[int, str],
\* tuple, a subclass of tuple) to a tuple validator, not to the validator of
\* its first member type, and does not raise.  Seen on a function whose one
\* parameter has a default, whose validator is click_type of its type.
C9_TupleTypeGivesTupleValidator ==
    (/\ command.kind = "function"
     /\ Len(command.signature) = 1
     /\ command.signature[1].name # ctx
     /\ command.signature[1].default # NoDefault
     /\ command.signature[1].annotation \in TupleShaped) =>
        /\ pc # "raised"
        /\ decorators[1].type.tag = "Tuple"
        /\ decorators[1].type.members =
              (IF command.signature[1].annotation.form = "alias"
                  \/ command.signature[1].annotation.args # << >>
               THEN <<"int", "str">> ELSE << >>)

\* C10 as claimed: for a mapping with n >= 1 annotated names there is one
\* binding per name in order, the command carries all n bindings, and it has
\* no callback.
C10_MappingCommandComplete ==
    BuiltFrom("dict") =>
        /\ Len(decorators) = Len(Built_item.signature)
        /\ \A j \in 1..Len(decorators) :
              decorators[j].decl = DeclOf(Built_item.signature[j])
        /\ command.params = decorators
        /\ command.callback = NoCallback

====
